---- MODULE Spec2Model ----
(***************************************************************************)
(* Model of nova_powervm/virt/powervm/tasks/network.py: the three taskflow *)
(* tasks UnplugVifs, PlugVifs and PlugMgmtVif, the hypervisor's adapter    *)
(* list they act on, and the external notifier that delivers the           *)
(* 'network-vif-plugged' events PlugVifs waits for.                         *)
(***************************************************************************)
EXTENDS Integers, Sequences, FiniteSets, TLC

\* ------------------------------------------------------------------ bounds
\* Longest network_info list a task is constructed with.
MaxVifs == 2

\* Most client network adapters the VM holds (guards the creates).
MaxAdapters == MaxVifs + 1

\* --------------------------------------------------------- MAC addresses
\* A MAC address is a sequence of characters; two octets are enough to
\* tell the formats apart.
Lower(c) ==
    CASE c = "A" -> "a"
      [] c = "B" -> "b"
      [] c = "C" -> "c"
      [] c = "D" -> "d"
      [] c = "E" -> "e"
      [] c = "F" -> "f"
      [] OTHER -> c

Upper(c) ==
    CASE c = "a" -> "A"
      [] c = "b" -> "B"
      [] c = "c" -> "C"
      [] c = "d" -> "D"
      [] c = "e" -> "E"
      [] c = "f" -> "F"
      [] OTHER -> c

StrLower(s) == [i \in 1..Len(s) |-> Lower(s[i])]

StrUpper(s) == [i \in 1..Len(s) |-> Upper(s[i])]

IsNotColon(c) == c # ":"

StripColons(s) == SelectSeq(s, IsNotColon)

RECURSIVE JoinPairs(_)
JoinPairs(s) ==
    IF Len(s) <= 2 THEN s
    ELSE SubSeq(s, 1, 2) \o <<":">> \o JoinPairs(SubSeq(s, 3, Len(s)))

\* vm.norm_mac: lower case, colons removed, then a colon between octets.
norm_mac(mac) == JoinPairs(StripColons(StrLower(mac)))

\* The format the hypervisor stores the address of a created adapter in:
\* upper case, no separators.
HypervisorMac(address) == StripColons(StrUpper(address))

\* The addresses the model draws from: one address in three formats, and a
\* second address in two.
MAC_aabb == <<"a", "a", ":", "b", "b">>
MAC_AABB == <<"A", "A", ":", "B", "B">>
MAC_AABB_HV == <<"A", "A", "B", "B">>
MAC_ccdd == <<"c", "c", ":", "d", "d">>
MAC_CCDD_HV == <<"C", "C", "D", "D">>
MAC_MGMT_HV == <<"E", "E", "F", "F">>

\* ------------------------------------------------------------ interfaces
\* The nova VIFs of network_info: address, id and the 'active' flag.
Vif(address, id, active) == [address |-> address, id |-> id, active |-> active]

VifPool ==
    { Vif(MAC_aabb, "port-a", FALSE),
      Vif(MAC_AABB, "port-A", FALSE),
      Vif(MAC_ccdd, "port-c", TRUE) }

RECURSIVE SeqsUpTo(_, _)
SeqsUpTo(S, n) ==
    IF n = 0 THEN { <<>> }
    ELSE LET shorter == SeqsUpTo(S, n - 1)
         IN  shorter \cup { Append(s, x) : s \in shorter, x \in S }

NetworkInfos == SeqsUpTo(VifPool, MaxVifs)

\* -------------------------------------------------------------- adapters
\* A client network adapter (CNA) wrapper: its handle, MAC and vswitch.
Cna(id, mac, vswitch) == [id |-> id, mac |-> mac, vswitch |-> vswitch]

Range(s) == { s[i] : i \in 1..Len(s) }

Ids(cnas) == { cnas[i].id : i \in 1..Len(cnas) }

MgmtCnas(cnas) == { i \in 1..Len(cnas) : cnas[i].vswitch = "mgmt" }

\* A handle no adapter of 'used' carries.
FreshId(used) == CHOOSE i \in 1..(Cardinality(used) + 1) : i \notin used

\* The adapter lists a VM starts with: none, one data adapter (its address
\* as the hypervisor stores it, or with colons), or one adapter on the
\* management switch when the host has that switch.
InitialCnaLists(hasMgmt) ==
    { <<>>,
      << Cna(1, MAC_AABB, "data") >>,
      << Cna(1, MAC_CCDD_HV, "data") >> }
    \cup (IF hasMgmt THEN { << Cna(1, MAC_MGMT_HV, "mgmt") >> } ELSE {})

\* ----------------------------------------------------------------- state
VARIABLES
    live,           \* the VM's adapters as the hypervisor reports them
    modifiable,     \* what the task's lpar_wrap.can_modify_io() reports
    mgmt_vswitch,   \* whether the host has the secure RMC vswitch
    conf,           \* CONF and is_neutron() as the PlugVifs pass reads them
    network_info,   \* the instance's network_info, given to every task
    op,             \* the task running or last run
    pc,             \* its position
    cna_w_list,     \* the list get_cnas returned at entry
    crt_vifs,       \* PlugVifs: the VIFs to create
    events,         \* PlugVifs: the registered event tags (VIF ids)
    waited,         \* the registered events the scope exit has consumed
    delivered,      \* the events the notifier has sent in this pass
    createCalls,    \* the VIFs vm.crt_vif was called for, in order
    created,        \* the handles of the adapters created in this pass
    deleteCalls,    \* the handles cna_w.delete() was called on, in order
    mgmtCalls,      \* the number of vm.crt_secure_rmc_vif calls
    ret,            \* what the task returned
    exc,            \* the exception it raised, and why
    prev,           \* the task that completed just before, if without error
                    \* (or 'plug aborted': PlugVifs failed in a create or timed out)
    rerun,          \* this task runs again right after completing without error
    repair,         \* PlugVifs runs again right after a pass that was aborted
    vm_cnas         \* the 'vm_cnas' the flow holds for PlugMgmtVif

vars == << live, modifiable, mgmt_vswitch, conf, network_info, op, pc,
           cna_w_list, crt_vifs, events, waited, delivered, createCalls,
           created, deleteCalls, mgmtCalls, ret, exc, prev, rerun, repair,
           vm_cnas >>

NoRet == [kind |-> "pending", val |-> <<>>]

NoExc == [type |-> "none", cause |-> "none"]

Raised(type, cause) == [type |-> type, cause |-> cause]

Confs ==
    [ is_neutron : BOOLEAN,
      vif_plugging_is_fatal : BOOLEAN,
      vif_plugging_timeout : {0, 300} ]

\* No task has read the configuration or the LPAR's state.
NoConf ==
    [ is_neutron |-> FALSE,
      vif_plugging_is_fatal |-> FALSE,
      vif_plugging_timeout |-> 0 ]

Init ==
    /\ mgmt_vswitch \in BOOLEAN
    /\ live \in InitialCnaLists(mgmt_vswitch)
    /\ modifiable = TRUE
    /\ conf = NoConf
    /\ network_info \in NetworkInfos
    /\ op = "none"
    /\ pc = "idle"
    /\ cna_w_list = <<>>
    /\ crt_vifs = <<>>
    /\ events = {}
    /\ waited = {}
    /\ delivered = {}
    /\ createCalls = <<>>
    /\ created = <<>>
    /\ deleteCalls = <<>>
    /\ mgmtCalls = 0
    /\ ret = NoRet
    /\ exc = NoExc
    /\ prev = "none"
    /\ rerun = FALSE
    /\ repair = FALSE
    /\ vm_cnas = <<>>

\* A task starts when no task is running.
CanStart == pc = "idle"

\* ------------------------------------------------------------ UnplugVifs
\* The index in cnas of the first adapter whose normalized MAC equals the
\* VIF's address as given (lines 82-84, 146-147); 0 when there is none.
FirstMatch(cnas, vif) ==
    LET hits == { j \in 1..Len(cnas) : norm_mac(cnas[j].mac) = vif.address }
    IN  IF hits = {} THEN 0
        ELSE CHOOSE j \in hits : \A k \in hits : j <= k

RemoveId(cnas, id) == SelectSeq(cnas, LAMBDA c : c.id # id)

RECURSIVE UnplugWalk_RaiseOnMissing(_, _, _, _, _, _)
UnplugWalk_RaiseOnMissing(info, cnas, i, liveNow, calls, failAt) ==
    IF i > Len(info)
    THEN [live |-> liveNow, calls |-> calls, exc |-> NoExc]
    ELSE LET j == FirstMatch(cnas, info[i])
         IN  IF j = 0
             THEN [live |-> liveNow, calls |-> calls,
                   exc |-> Raised("VirtualInterfaceUnplugException",
                                  "missing")]
             ELSE LET calls2 == Append(calls, cnas[j].id)
                  IN  IF Len(calls2) = failAt
                      THEN [live |-> liveNow, calls |-> calls2,
                            exc |-> Raised("VirtualInterfaceUnplugException",
                                           "delete")]
                      ELSE UnplugWalk_RaiseOnMissing(
                               info, cnas, i + 1,
                               RemoveId(liveNow, cnas[j].id), calls2, failAt)

RECURSIVE UnplugWalk_ContinueAfterFailure(_, _, _, _, _, _, _)
UnplugWalk_ContinueAfterFailure(info, cnas, i, liveNow, calls, failAt, e) ==
    IF i > Len(info)
    THEN [live |-> liveNow, calls |-> calls, exc |-> e]
    ELSE LET j == FirstMatch(cnas, info[i])
         IN  IF j = 0
             THEN UnplugWalk_ContinueAfterFailure(info, cnas, i + 1, liveNow,
                                                  calls, failAt, e)
             ELSE LET calls2 == Append(calls, cnas[j].id)
                  IN  IF Len(calls2) = failAt
                      THEN UnplugWalk_ContinueAfterFailure(
                               info, cnas, i + 1, liveNow, calls2, failAt,
                               Raised("VirtualInterfaceUnplugException",
                                      "delete"))
                      ELSE UnplugWalk_ContinueAfterFailure(
                               info, cnas, i + 1,
                               RemoveId(liveNow, cnas[j].id), calls2, failAt,
                               e)

UnplugWalk_KeepGoing(info, cnas, i, liveNow, calls, failAt) ==
    UnplugWalk_ContinueAfterFailure(info, cnas, i, liveNow, calls, failAt,
                                    NoExc)

\* The loop of lines 81-108.  failAt is the number of the delete call that
\* raises (0: none does).
RECURSIVE UnplugWalk(_, _, _, _, _, _)
UnplugWalk(info, cnas, i, liveNow, calls, failAt) ==
    IF i > Len(info)
    THEN [live |-> liveNow, calls |-> calls, exc |-> NoExc]
    ELSE LET j == FirstMatch(cnas, info[i])
         IN  IF j = 0
             THEN UnplugWalk(info, cnas, i + 1, liveNow, calls, failAt)
             ELSE LET calls2 == Append(calls, cnas[j].id)
                  IN  IF Len(calls2) = failAt
                      THEN [live |-> liveNow, calls |-> calls2,
                            exc |-> Raised("VirtualInterfaceUnplugException",
                                           "delete")]
                      ELSE UnplugWalk(info, cnas, i + 1,
                                      RemoveId(liveNow, cnas[j].id),
                                      calls2, failAt)

UnplugOutcome_NoStateCheck(info, cnas, canModify, failAt) ==
    UnplugWalk(info, cnas, 1, cnas, <<>>, failAt)

\* UnplugVifs.execute, lines 62-109: the state check, then the loop.
UnplugOutcome(info, cnas, canModify, failAt) ==
    IF ~canModify
    THEN [live |-> cnas, calls |-> <<>>,
          exc |-> Raised("VirtualInterfaceUnplugException", "state")]
    ELSE UnplugWalk(info, cnas, 1, cnas, <<>>, failAt)

UnplugVifs(canModify, failAt) ==
    /\ CanStart
    /\ modifiable' = canModify
    /\ conf' = NoConf
    /\ LET out == UnplugOutcome(network_info, live, canModify, failAt)
       IN  /\ live' = out.live
           /\ deleteCalls' = out.calls
           /\ exc' = out.exc
           /\ cna_w_list' = IF out.exc.cause = "state" THEN <<>> ELSE live
           /\ ret' = IF out.exc = NoExc
                     THEN [kind |-> "list", val |-> live]
                     ELSE [kind |-> "raise", val |-> <<>>]
    /\ op' = "unplug"
    /\ pc' = "done"
    /\ rerun' = (prev = "unplug")
    /\ repair' = FALSE
    /\ prev' = "none"
    /\ vm_cnas' = <<>>
    /\ crt_vifs' = <<>>
    /\ events' = {}
    /\ waited' = {}
    /\ delivered' = {}
    /\ createCalls' = <<>>
    /\ created' = <<>>
    /\ mgmtCalls' = 0
    /\ UNCHANGED << mgmt_vswitch, network_info >>

\* -------------------------------------------------------------- PlugVifs
\* Lines 143-150: the VIFs with no adapter whose normalized MAC equals the
\* VIF's address.
ToCreate(info, cnas) ==
    SelectSeq(info, LAMBDA vif : FirstMatch(cnas, vif) = 0)

IsInactive(vif) == ~vif.active

GetVifEvents_IgnoreFatal(info, c) ==
    IF c.is_neutron /\ c.vif_plugging_timeout # 0
    THEN LET wanted == SelectSeq(info, IsInactive)
         IN  [i \in 1..Len(wanted) |-> wanted[i].id]
    ELSE <<>>

\* PlugVifs._get_vif_events, lines 197-214: the tags of the events to wait
\* for (the event type is always 'network-vif-plugged').
GetVifEvents(info, c) ==
    IF c.is_neutron /\ c.vif_plugging_is_fatal /\ c.vif_plugging_timeout # 0
    THEN LET wanted == SelectSeq(info, IsInactive)
         IN  [i \in 1..Len(wanted) |-> wanted[i].id]
    ELSE <<>>

PlugStart_NoRegister(c, canModify) ==
    /\ CanStart
    /\ modifiable' = canModify
    /\ conf' = c
    /\ LET crt == ToCreate(network_info, live)
       IN  /\ Len(live) + Len(crt) <= MaxAdapters
           /\ crt_vifs' = crt
           /\ IF Len(crt) = 0
              THEN /\ ret' = [kind |-> "list", val |-> <<>>]
                   /\ exc' = NoExc
                   /\ pc' = "done"
                   /\ events' = {}
              ELSE IF ~canModify
              THEN /\ ret' = [kind |-> "raise", val |-> <<>>]
                   /\ exc' = Raised("VirtualInterfaceCreateException", "state")
                   /\ pc' = "done"
                   /\ events' = {}
              ELSE /\ ret' = NoRet
                   /\ exc' = NoExc
                   /\ pc' = "creating"
                   /\ events' = {}
    /\ cna_w_list' = live
    /\ op' = "plug"
    /\ rerun' = (prev = "plug")
    /\ repair' = (prev = "plug aborted")
    /\ prev' = "none"
    /\ vm_cnas' = <<>>
    /\ waited' = {}
    /\ delivered' = {}
    /\ createCalls' = <<>>
    /\ created' = <<>>
    /\ deleteCalls' = <<>>
    /\ mgmtCalls' = 0
    /\ UNCHANGED << live, mgmt_vswitch, network_info >>

PlugStart_StateCheckFirst(c, canModify) ==
    /\ CanStart
    /\ modifiable' = canModify
    /\ conf' = c
    /\ LET crt == ToCreate(network_info, live)
       IN  /\ Len(live) + Len(crt) <= MaxAdapters
           /\ crt_vifs' = crt
           /\ IF ~canModify
              THEN /\ ret' = [kind |-> "raise", val |-> <<>>]
                   /\ exc' = Raised("VirtualInterfaceCreateException", "state")
                   /\ pc' = "done"
                   /\ events' = {}
              ELSE IF Len(crt) = 0
              THEN /\ ret' = [kind |-> "list", val |-> <<>>]
                   /\ exc' = NoExc
                   /\ pc' = "done"
                   /\ events' = {}
              ELSE /\ ret' = NoRet
                   /\ exc' = NoExc
                   /\ pc' = "creating"
                   /\ events' = Range(GetVifEvents(network_info, c))
    /\ cna_w_list' = live
    /\ op' = "plug"
    /\ rerun' = (prev = "plug")
    /\ repair' = (prev = "plug aborted")
    /\ prev' = "none"
    /\ vm_cnas' = <<>>
    /\ waited' = {}
    /\ delivered' = {}
    /\ createCalls' = <<>>
    /\ created' = <<>>
    /\ deleteCalls' = <<>>
    /\ mgmtCalls' = 0
    /\ UNCHANGED << live, mgmt_vswitch, network_info >>

\* Lines 136-172: fetch the adapters, trim the VIFs, return at once when
\* there is nothing to create, check the state, register the events.
PlugStart(c, canModify) ==
    /\ CanStart
    /\ modifiable' = canModify
    /\ conf' = c
    /\ LET crt == ToCreate(network_info, live)
       IN  /\ Len(live) + Len(crt) <= MaxAdapters
           /\ crt_vifs' = crt
           /\ IF Len(crt) = 0
              THEN /\ ret' = [kind |-> "list", val |-> <<>>]
                   /\ exc' = NoExc
                   /\ pc' = "done"
                   /\ events' = {}
              ELSE IF ~canModify
              THEN /\ ret' = [kind |-> "raise", val |-> <<>>]
                   /\ exc' = Raised("VirtualInterfaceCreateException", "state")
                   /\ pc' = "done"
                   /\ events' = {}
              ELSE /\ ret' = NoRet
                   /\ exc' = NoExc
                   /\ pc' = "creating"
                   /\ events' = Range(GetVifEvents(network_info, c))
    /\ cna_w_list' = live
    /\ op' = "plug"
    /\ rerun' = (prev = "plug")
    /\ repair' = (prev = "plug aborted")
    /\ prev' = "none"
    /\ vm_cnas' = <<>>
    /\ waited' = {}
    /\ delivered' = {}
    /\ createCalls' = <<>>
    /\ created' = <<>>
    /\ deleteCalls' = <<>>
    /\ mgmtCalls' = 0
    /\ UNCHANGED << live, mgmt_vswitch, network_info >>

NextVif_Reversed(vifs, calls) == vifs[Len(vifs) - Len(calls)]

\* Line 173: the loop takes crt_vifs from first to last.
NextVif(vifs, calls) == vifs[Len(calls) + 1]

\* Lines 173-180: one vm.crt_vif call, which creates the adapter or raises.
PlugCreate(fails) ==
    /\ op = "plug"
    /\ pc = "creating"
    /\ LET vif == NextVif(crt_vifs, createCalls)
           id == FreshId(Ids(live) \cup Ids(cna_w_list))
       IN  /\ createCalls' = Append(createCalls, vif)
           /\ IF fails
              THEN /\ exc' = Raised("Exception", "crt_vif")
                   /\ ret' = [kind |-> "raise", val |-> <<>>]
                   /\ pc' = "done"
                   /\ UNCHANGED << live, created >>
              ELSE /\ live' = Append(live,
                                     Cna(id, HypervisorMac(vif.address),
                                         "data"))
                   /\ created' = Append(created, id)
                   /\ pc' = IF Len(createCalls) + 1 = Len(crt_vifs)
                            THEN "waiting" ELSE "creating"
                   /\ UNCHANGED << exc, ret >>
    /\ UNCHANGED << modifiable, mgmt_vswitch, conf, network_info, op,
                    cna_w_list, crt_vifs, events, waited, delivered,
                    deleteCalls, mgmtCalls, prev, rerun,
                    repair, vm_cnas >>

Pending == { e \in events \ waited : \A d \in delivered : d.id # e }

\* The notifier sends 'network-vif-plugged' for one of the instance's VIFs
\* that is not active yet, completed or failed, at most once in a pass.
Deliver(id, status) ==
    /\ op = "plug"
    /\ pc \in {"creating", "waiting"}
    /\ \E i \in 1..Len(network_info) :
          network_info[i].id = id /\ ~network_info[i].active
    /\ \A d \in delivered : d.id # id
    /\ delivered' = delivered \cup { [id |-> id, status |-> status] }
    /\ UNCHANGED << live, modifiable, mgmt_vswitch, conf, network_info, op,
                    pc, cna_w_list, crt_vifs, events, waited, createCalls,
                    created, deleteCalls, mgmtCalls, ret, exc, prev, rerun,
                    repair, vm_cnas >>

VifCallbackFailed_Never(c) == FALSE

\* Lines 190-195: whether the error callback raises.
VifCallbackFailed(c) == c.vif_plugging_is_fatal

\* The exit of the scope of lines 169-172 takes one registered event that
\* has arrived; a failed one goes to the error callback.
PlugWaitEvent ==
    /\ op = "plug"
    /\ pc = "waiting"
    /\ \E d \in delivered :
         /\ d.id \in events \ waited
         /\ IF d.status = "failed" /\ VifCallbackFailed(conf)
            THEN /\ exc' = Raised("VirtualInterfaceCreateException", "callback")
                 /\ ret' = [kind |-> "raise", val |-> <<>>]
                 /\ pc' = "done"
                 /\ UNCHANGED waited
            ELSE /\ waited' = waited \cup {d.id}
                 /\ UNCHANGED << exc, ret, pc >>
    /\ UNCHANGED << live, modifiable, mgmt_vswitch, conf, network_info, op,
                    cna_w_list, crt_vifs, events, delivered, createCalls,
                    created, deleteCalls, mgmtCalls, prev, rerun,
                    repair, vm_cnas >>

PlugTimeout_Swallowed ==
    /\ op = "plug"
    /\ pc = "waiting"
    /\ Pending # {}
    /\ ret' = [kind |-> "list", val |-> cna_w_list]
    /\ pc' = "done"
    /\ UNCHANGED << live, modifiable, mgmt_vswitch, conf, network_info, op,
                    cna_w_list, crt_vifs, events, waited, delivered,
                    createCalls, created, deleteCalls, mgmtCalls, exc, prev,
                    rerun, repair, vm_cnas >>

\* Lines 181-185: the deadline passes while a registered event has not
\* arrived; the Timeout becomes a VirtualInterfaceCreateException.
PlugTimeout ==
    /\ op = "plug"
    /\ pc = "waiting"
    /\ Pending # {}
    /\ exc' = Raised("VirtualInterfaceCreateException", "timeout")
    /\ ret' = [kind |-> "raise", val |-> <<>>]
    /\ pc' = "done"
    /\ UNCHANGED << live, modifiable, mgmt_vswitch, conf, network_info, op,
                    cna_w_list, crt_vifs, events, waited, delivered,
                    createCalls, created, deleteCalls, mgmtCalls, prev, rerun,
                    repair, vm_cnas >>

PlugReturnValue_Fresh(cnas, liveNow) == liveNow

\* Line 188: the list returned is the one fetched at line 141.
PlugReturnValue(cnas, liveNow) == cnas

PlugReturn_Early ==
    /\ op = "plug"
    /\ pc = "waiting"
    /\ ret' = [kind |-> "list", val |-> PlugReturnValue(cna_w_list, live)]
    /\ pc' = "done"
    /\ UNCHANGED << live, modifiable, mgmt_vswitch, conf, network_info, op,
                    cna_w_list, crt_vifs, events, waited, delivered,
                    createCalls, created, deleteCalls, mgmtCalls, exc, prev,
                    rerun, repair, vm_cnas >>

\* Lines 187-188: every registered event has arrived; return.
PlugReturn ==
    /\ op = "plug"
    /\ pc = "waiting"
    /\ events \subseteq waited
    /\ ret' = [kind |-> "list", val |-> PlugReturnValue(cna_w_list, live)]
    /\ pc' = "done"
    /\ UNCHANGED << live, modifiable, mgmt_vswitch, conf, network_info, op,
                    cna_w_list, crt_vifs, events, waited, delivered,
                    createCalls, created, deleteCalls, mgmtCalls, exc, prev,
                    rerun, repair, vm_cnas >>

\* ----------------------------------------------------------- PlugMgmtVif
\* Lines 253-257: whether the list given holds an adapter on the
\* management vswitch.
OnMgmtVswitch(cnas) == MgmtCnas(cnas) # {}

\* PlugMgmtVif.execute, lines 239-261, given the 'vm_cnas' PlugVifs
\* provided.
PlugMgmtVif ==
    /\ CanStart
    /\ prev = "plug"
    /\ LET skip == ~mgmt_vswitch \/ OnMgmtVswitch(vm_cnas)
           new == Cna(FreshId(Ids(live) \cup Ids(vm_cnas)), MAC_MGMT_HV, "mgmt")
       IN  /\ skip \/ Len(live) < MaxAdapters
           /\ IF skip
              THEN /\ ret' = [kind |-> "None", val |-> <<>>]
                   /\ mgmtCalls' = 0
                   /\ created' = <<>>
                   /\ UNCHANGED live
              ELSE /\ ret' = [kind |-> "cna", val |-> << new >>]
                   /\ mgmtCalls' = 1
                   /\ created' = << new.id >>
                   /\ live' = Append(live, new)
           /\ cna_w_list' = vm_cnas
    /\ op' = "mgmt"
    /\ pc' = "done"
    /\ rerun' = FALSE
    /\ repair' = FALSE
    /\ prev' = "none"
    /\ vm_cnas' = <<>>
    /\ crt_vifs' = <<>>
    /\ events' = {}
    /\ waited' = {}
    /\ delivered' = {}
    /\ createCalls' = <<>>
    /\ deleteCalls' = <<>>
    /\ modifiable' = TRUE
    /\ conf' = NoConf
    /\ exc' = NoExc
    /\ UNCHANGED << mgmt_vswitch, network_info >>

\* ------------------------------------------------------------- the flow
\* The engine takes the task's result: it stores what the task provides
\* ('vm_cnas' from PlugVifs) and is ready for the next task.
Finish ==
    /\ pc = "done"
    /\ prev' = IF exc = NoExc THEN op
               ELSE IF op = "plug" /\ exc.cause \in {"crt_vif", "timeout"}
               THEN "plug aborted"
               ELSE "none"
    /\ rerun' = FALSE
    /\ repair' = FALSE
    /\ vm_cnas' = IF op = "plug" /\ exc = NoExc THEN ret.val ELSE <<>>
    /\ op' = "none"
    /\ pc' = "idle"
    /\ modifiable' = TRUE
    /\ conf' = NoConf
    /\ cna_w_list' = <<>>
    /\ crt_vifs' = <<>>
    /\ events' = {}
    /\ waited' = {}
    /\ delivered' = {}
    /\ createCalls' = <<>>
    /\ created' = <<>>
    /\ deleteCalls' = <<>>
    /\ mgmtCalls' = 0
    /\ ret' = NoRet
    /\ exc' = NoExc
    /\ UNCHANGED << live, mgmt_vswitch, network_info >>

Next ==
    \/ \E canModify \in BOOLEAN, failAt \in 0..Len(network_info) :
          UnplugVifs(canModify, failAt)
    \/ \E c \in Confs, canModify \in BOOLEAN : PlugStart(c, canModify)
    \/ \E fails \in BOOLEAN : PlugCreate(fails)
    \/ \E id \in { v.id : v \in VifPool }, status \in {"completed", "failed"} :
          Deliver(id, status)
    \/ PlugWaitEvent
    \/ PlugTimeout
    \/ PlugReturn
    \/ PlugMgmtVif
    \/ Finish

Spec == Init /\ [][Next]_vars

\* The steps of PlugVifs passes alone, one pass after another.
PlugNext ==
    \/ \E c \in Confs, canModify \in BOOLEAN : PlugStart(c, canModify)
    \/ \E fails \in BOOLEAN : PlugCreate(fails)
    \/ \E id \in { v.id : v \in VifPool }, status \in {"completed", "failed"} :
          Deliver(id, status)
    \/ PlugWaitEvent
    \/ PlugTimeout
    \/ PlugReturn
    \/ Finish

\* A crt_vif call returns or raises, and the exit of the wait scope ends:
\* it takes an event that has arrived, or the deadline of a finite
\* vif_plugging_timeout passes, or nothing is left to wait for.
LiveSpec ==
    /\ Init
    /\ [][PlugNext]_vars
    /\ WF_vars(\E fails \in BOOLEAN : PlugCreate(fails))
    /\ WF_vars(PlugWaitEvent \/ PlugTimeout \/ PlugReturn)

\* ---------------------------------------------------------------- claims
CreateExc == "VirtualInterfaceCreateException"

\* The adapters of cnas whose normalized address equals the normalized
\* address of the VIF.
NormMatches(cnas, vif) ==
    { j \in 1..Len(cnas) : norm_mac(cnas[j].mac) = norm_mac(vif.address) }

\* The VM's adapters without those this pass created.
LiveBefore == SelectSeq(live, LAMBDA c : c.id \notin Range(created))

\* C1: a task whose LPAR is not modifiable changes nothing: every step that
\* ends in a state of UnplugVifs or PlugVifs with modifiable = FALSE leaves
\* the VM's adapters as they were, and no crt_vif and no delete call has
\* been issued.
C1_NotModifiableNoMutation ==
    [][ (op' \in {"unplug", "plug"} /\ ~modifiable')
        => /\ live' = live
           /\ createCalls' = <<>>
           /\ deleteCalls' = <<>> ]_vars

\* UnplugVifs refused a list that names an adapter of the VM.
C1_Witness ==
    /\ op = "unplug"
    /\ pc = "done"
    /\ ~modifiable
    /\ exc.type = "VirtualInterfaceUnplugException"
    /\ \E i \in 1..Len(network_info) : FirstMatch(live, network_info[i]) # 0

\* C2: on a host with the management vswitch, the VM never has more than
\* one adapter on it.
C2_AtMostOneMgmtAdapter ==
    mgmt_vswitch => Cardinality(MgmtCnas(live)) <= 1

\* C3: the VIFs PlugVifs is to create are network_info, in order, without
\* the VIFs whose normalized address is the normalized address of an
\* adapter fetched at entry.
C3_ToCreateByNormalizedAddress ==
    op = "plug" =>
        crt_vifs = SelectSeq(network_info,
                             LAMBDA vif : NormMatches(cna_w_list, vif) = {})

\* C4: PlugVifs run again right after it completed without error, with the
\* same network_info, issues no crt_vif call.
C4_PlugIdempotent ==
    (op = "plug" /\ rerun) => createCalls = <<>>

\* C5: after UnplugVifs completes without error no adapter of the VM has
\* the normalized address of a listed VIF, and UnplugVifs run again right
\* after, on a modifiable LPAR, issues no delete call and raises nothing.
C5_UnplugIdempotent ==
    /\ (op = "unplug" /\ pc = "done" /\ exc = NoExc)
       => \A i \in 1..Len(network_info) : NormMatches(live, network_info[i]) = {}
    /\ (op = "unplug" /\ rerun /\ modifiable)
       => (deleteCalls = <<>> /\ exc = NoExc)

\* C6: PlugMgmtVif returns None without a crt_secure_rmc_vif call exactly
\* when the host has no management vswitch or the VM already had an adapter
\* on it; otherwise it makes one call and returns the adapter created.
C6_MgmtSkippedIffPresent ==
    (op = "mgmt" /\ pc = "done") =>
        IF ~mgmt_vswitch \/ MgmtCnas(LiveBefore) # {}
        THEN mgmtCalls = 0 /\ ret.kind = "None"
        ELSE /\ mgmtCalls = 1
             /\ ret.kind = "cna"
             /\ ret.val = << live[Len(live)] >>

\* C7: with vif_plugging_is_fatal and neutron, a PlugVifs pass that made
\* all its crt_vif calls and ended while a registered event had not
\* arrived raised VirtualInterfaceCreateException, and every adapter it
\* created is still on the VM.
C7_TimeoutFailsWithoutRollback ==
    ( /\ op = "plug"
      /\ pc = "done"
      /\ conf.is_neutron
      /\ conf.vif_plugging_is_fatal
      /\ Len(crt_vifs) > 0
      /\ Len(created) = Len(crt_vifs)
      /\ \E e \in events : \A d \in delivered : d.id # e )
    => /\ exc.type = CreateExc
       /\ ret.kind = "raise"
       /\ Range(created) \subseteq Ids(live)
       /\ LiveBefore = cna_w_list
       /\ Len(live) = Len(cna_w_list) + Len(created)

\* The deadline passed after two adapters were created, the event of one of
\* them having arrived.
C7_Witness ==
    /\ op = "plug"
    /\ pc = "done"
    /\ conf.is_neutron
    /\ conf.vif_plugging_is_fatal
    /\ exc.type = CreateExc
    /\ Len(created) = 2
    /\ Range(created) \subseteq Ids(live)
    /\ \E v \in Range(createCalls) :
          v.id \in events /\ \A d \in delivered : d.id # v.id
    /\ \E v \in Range(createCalls) :
          [id |-> v.id, status |-> "completed"] \in delivered

\* C8: without vif_plugging_is_fatal, PlugVifs on a modifiable LPAR waits
\* for no event, and when none of its crt_vif calls raised it made a call
\* for every VIF to create and returned its list, whatever the notifier
\* reported and whatever the networking mode and the timeout.
C8_NonFatalEventFailureIgnored ==
    (op = "plug" /\ ~conf.vif_plugging_is_fatal) =>
        /\ pc = "waiting" => events \subseteq waited
        /\ (pc = "done" /\ modifiable /\ Len(created) = Len(createCalls))
           => /\ exc = NoExc
              /\ ret.kind = "list"
              /\ createCalls = crt_vifs

\* With neutron and a timeout but not fatal, the notifier reported a
\* failure for a VIF that was created, and PlugVifs returned.
C8_Witness ==
    /\ op = "plug"
    /\ pc = "done"
    /\ ~conf.vif_plugging_is_fatal
    /\ conf.is_neutron
    /\ conf.vif_plugging_timeout # 0
    /\ exc = NoExc
    /\ ret.kind = "list"
    /\ Len(created) = Len(crt_vifs)
    /\ \E v \in Range(createCalls) :
          ~v.active /\ [id |-> v.id, status |-> "failed"] \in delivered

\* C9: within one PlugVifs pass no two crt_vif calls are for the same
\* normalized address.
C9_OneCreatePerAddress ==
    op = "plug" =>
        \A i, j \in 1..Len(createCalls) :
            i # j => norm_mac(createCalls[i].address)
                       # norm_mac(createCalls[j].address)

MatchedHandles(info, cnas) ==
    LET matched == SelectSeq(info, LAMBDA vif : FirstMatch(cnas, vif) # 0)
    IN  [i \in 1..Len(matched) |-> cnas[FirstMatch(cnas, matched[i])].id]

IsPrefix(s, t) == Len(s) <= Len(t) /\ s = SubSeq(t, 1, Len(s))

\* C11: on a modifiable LPAR a VIF for which the scan finds no adapter
\* raises nothing and gets no delete call, and the adapters found for the
\* other VIFs, before and after it, are deleted all the same: the delete
\* calls are those of the matched VIFs, in order; without a failing delete
\* all of them are made, the adapters are gone and the list fetched is
\* returned; an exception comes only from a delete call; with no adapter
\* on the VM nothing is deleted and the empty list is returned.
C11_MissingAdapterIsNoError ==
    (op = "unplug" /\ pc = "done" /\ modifiable) =>
        LET expected == MatchedHandles(network_info, cna_w_list)
        IN  /\ IsPrefix(deleteCalls, expected)
            /\ exc = NoExc =>
                 /\ deleteCalls = expected
                 /\ ret = [kind |-> "list", val |-> cna_w_list]
                 /\ live = SelectSeq(cna_w_list,
                                     LAMBDA c : c.id \notin Range(expected))
            /\ exc # NoExc => deleteCalls # <<>>
            /\ cna_w_list = <<>> =>
                 /\ deleteCalls = <<>>
                 /\ exc = NoExc
                 /\ ret = [kind |-> "list", val |-> <<>>]

\* The first VIF of the list has no adapter, the second has one, which was
\* deleted.
C11_Witness ==
    /\ op = "unplug"
    /\ pc = "done"
    /\ modifiable
    /\ exc = NoExc
    /\ Len(network_info) = 2
    /\ FirstMatch(cna_w_list, network_info[1]) = 0
    /\ FirstMatch(cna_w_list, network_info[2]) # 0
    /\ Len(deleteCalls) = 1
    /\ Len(live) = Len(cna_w_list) - 1

\* C12: the events registered for a PlugVifs pass are the ids of the VIFs
\* to create that are not active, and of no other VIF; there are none
\* without neutron, without vif_plugging_is_fatal or without a timeout.
C12_WaitSetIsInactiveToCreate ==
    (op = "plug" /\ pc \in {"creating", "waiting"}) =>
        events = IF /\ conf.is_neutron
                    /\ conf.vif_plugging_is_fatal
                    /\ conf.vif_plugging_timeout # 0
                 THEN { vif.id : vif \in { v \in Range(crt_vifs) : ~v.active } }
                 ELSE {}

\* C13: the events are registered when the first crt_vif call is made and
\* are not changed by it; an event the notifier has sent stays arrived for
\* the rest of the pass; and the pass times out only while a registered
\* event has not been sent: an event sent at any point after PlugVifs
\* entered the wait scope, before or during the wait, is never lost.
C13_EventsRegisteredBeforeCreate ==
    [][ /\ Len(createCalls') > Len(createCalls)
           => /\ events = Range(GetVifEvents(network_info, conf))
              /\ events' = events
        /\ (op = "plug" /\ op' = "plug") => delivered \subseteq delivered'
        /\ ( /\ op = "plug"
             /\ pc = "waiting"
             /\ pc' = "done"
             /\ exc'.type = CreateExc
             /\ \A d \in delivered : d.id \in events => d.status = "completed" )
           => \E e \in events : \A d \in delivered : d.id # e ]_vars

\* The event of the first adapter created has arrived while the second
\* crt_vif call is still to be made.
C13_Witness ==
    /\ op = "plug"
    /\ pc = "creating"
    /\ Len(crt_vifs) = 2
    /\ Len(created) = 1
    /\ createCalls[1].id \in events
    /\ [id |-> createCalls[1].id, status |-> "completed"] \in delivered

\* Every registered event has arrived and has been taken by the wait.
AllEventsArrived ==
    /\ events \subseteq waited
    /\ \A e \in events : \E d \in delivered : d.id = e

\* C14 as stated: a finished PlugVifs pass has returned a list with no
\* registered event outstanding, or has raised
\* VirtualInterfaceCreateException.
C14_EndsInReturnOrCreateException ==
    (op = "plug" /\ pc = "done") =>
        \/ ret.kind = "list" /\ AllEventsArrived
        \/ exc.type = CreateExc

\* C14 amended: PlugVifs returns a list only when every registered event
\* has arrived, and a pass that has begun creating adapters always ends:
\* in a return, in VirtualInterfaceCreateException, or in the exception of
\* a crt_vif call that failed, which is passed on as it is.
C14_ReturnsAfterEventsOrFails ==
    /\ []( (op = "plug" /\ pc = "done" /\ ret.kind = "list")
              => AllEventsArrived )
    /\ []( (op = "plug" /\ pc = "done" /\ ret.kind # "list")
              => \/ exc.type = CreateExc
                 \/ exc = Raised("Exception", "crt_vif") )
    /\ (op = "plug" /\ pc \in {"creating", "waiting"})
          ~> (op = "plug" /\ pc = "done")

\* A pass returned its list after the events of two new adapters arrived.
C14_Witness ==
    /\ op = "plug"
    /\ pc = "done"
    /\ ret.kind = "list"
    /\ Cardinality(events) = 2
    /\ Len(created) = 2
    /\ AllEventsArrived

\* The registered events the notifier has reported as failed.
FailedRegistered ==
    { d.id : d \in { x \in delivered : x.status = "failed" /\ x.id \in events } }

\* C15: under the fatal policy a registered event that failed is never
\* counted as arrived and PlugVifs returns no list; a pass whose creates
\* all succeeded ends in VirtualInterfaceCreateException, raised by the
\* callback itself unless the deadline passed first.
C15_FatalEventFailureRaises ==
    (op = "plug" /\ conf.vif_plugging_is_fatal /\ FailedRegistered # {}) =>
        /\ FailedRegistered \cap waited = {}
        /\ ret.kind # "list"
        /\ (pc = "done" /\ Len(created) = Len(crt_vifs))
              => /\ ret.kind = "raise"
                 /\ exc.type = CreateExc
                 /\ exc.cause \in {"callback", "timeout"}
                 /\ Pending = {} => exc.cause = "callback"

\* The callback raised after every adapter had been created.
C15_Witness ==
    /\ op = "plug"
    /\ pc = "done"
    /\ conf.vif_plugging_is_fatal
    /\ FailedRegistered # {}
    /\ Len(created) = Len(crt_vifs)
    /\ exc = Raised(CreateExc, "callback")

\* The delete calls of the pass before the last one.
EarlierDeletes == SubSeq(deleteCalls, 1, Len(deleteCalls) - 1)

\* C16: when a delete call raises, UnplugVifs raises
\* VirtualInterfaceUnplugException and returns no list; the failing call
\* is the last one of the pass, made in the order of the matched VIFs, and
\* the adapters deleted by the earlier calls, and only those, are gone.
C16_DeleteFailureAborts ==
    (op = "unplug" /\ pc = "done" /\ exc.cause = "delete") =>
        /\ exc.type = "VirtualInterfaceUnplugException"
        /\ ret = [kind |-> "raise", val |-> <<>>]
        /\ deleteCalls # <<>>
        /\ IsPrefix(deleteCalls, MatchedHandles(network_info, cna_w_list))
        /\ live = SelectSeq(cna_w_list,
                            LAMBDA c : c.id \notin Range(EarlierDeletes))

\* The delete for the first of two matched VIFs raised; the adapter of the
\* second is still there.
C16_Witness ==
    /\ op = "unplug"
    /\ pc = "done"
    /\ exc.cause = "delete"
    /\ Len(deleteCalls) = 1
    /\ LET expected == MatchedHandles(network_info, cna_w_list)
       IN  /\ Len(expected) = 2
           /\ expected[1] # expected[2]
           /\ expected[2] \in Ids(live)

\* C17: when no VIF is left to create, PlugVifs returns the empty list,
\* whatever the state of the LPAR: it raises nothing, registers no event,
\* calls crt_vif for nothing and leaves the adapters as it fetched them.
C17_NothingToCreateShortCircuits ==
    (op = "plug" /\ crt_vifs = <<>>) =>
        /\ pc = "done"
        /\ ret = [kind |-> "list", val |-> <<>>]
        /\ exc = NoExc
        /\ events = {}
        /\ waited = {}
        /\ createCalls = <<>>
        /\ created = <<>>
        /\ live = cna_w_list

\* Every VIF of a list that is not empty had its adapter, the LPAR was not
\* modifiable and the configuration asked for events.
C17_Witness ==
    /\ op = "plug"
    /\ crt_vifs = <<>>
    /\ network_info # <<>>
    /\ ~modifiable
    /\ conf.is_neutron
    /\ conf.vif_plugging_is_fatal
    /\ conf.vif_plugging_timeout # 0
    /\ \E i \in 1..Len(network_info) : ~network_info[i].active
    /\ ret.kind = "list"

\* C18: the crt_vif calls of a PlugVifs pass are the VIFs to create, which
\* keep the order of network_info, from the first on with none left out,
\* and all of them once the creation loop is over; the delete calls of an
\* UnplugVifs pass are the adapters matched for the VIFs of network_info,
\* from the first on in the order of the list.
C18_CallsFollowListOrder ==
    /\ op = "plug" =>
         /\ crt_vifs = ToCreate(network_info, cna_w_list)
         /\ IsPrefix(createCalls, crt_vifs)
         /\ \/ pc = "waiting"
            \/ pc = "done" /\ exc.cause \in {"none", "timeout", "callback"}
            => createCalls = crt_vifs
    /\ op = "unplug" =>
         /\ IsPrefix(deleteCalls, MatchedHandles(network_info, cna_w_list))
         /\ exc = NoExc
               => deleteCalls = MatchedHandles(network_info, cna_w_list)

\* Two crt_vif calls were made, for two different VIFs.
C18_Witness ==
    /\ op = "plug"
    /\ Len(createCalls) = 2
    /\ Len(created) = 2
    /\ createCalls[1] # createCalls[2]

\* C19: a PlugVifs pass on a modifiable LPAR that follows a pass aborted
\* by a failed crt_vif call or a timeout, with the same network_info,
\* creates the VIFs that have no adapter by normalized address and no
\* others, registers no event of a VIF whose adapter was there before the
\* pass, and returns its list once every adapter is created and the event
\* of each VIF created in the pass has arrived as completed.
C19_RerunRepairsAbortedPlug ==
    (op = "plug" /\ repair /\ modifiable) =>
        /\ crt_vifs = SelectSeq(network_info,
                                LAMBDA vif : NormMatches(cna_w_list, vif) = {})
        /\ events \subseteq { vif.id : vif \in Range(crt_vifs) }
        /\ ( /\ pc = "done"
             /\ Len(created) = Len(crt_vifs)
             /\ \A vif \in Range(crt_vifs) :
                   ~vif.active =>
                      [id |-> vif.id, status |-> "completed"] \in delivered )
           => ret.kind = "list"

\* C20: no adapter gets two delete calls in one UnplugVifs pass.
C20_DeleteOncePerHandle ==
    op = "unplug" =>
        \A i, j \in 1..Len(deleteCalls) :
            deleteCalls[i] = deleteCalls[j] => i = j

====
